---- MODULE Spec2Model ----
(***************************************************************************)
(* House market tracker: the monthly RentCast budget guard                 *)
(* (withRentCastBudget), the add-market route (POST /api/v1/markets) and   *)
(* the summary route (GET /api/v1/summary), over the Market, Snapshot and  *)
(* ApiUsage tables.  Time is counted in days.                              *)
(***************************************************************************)
EXTENDS Integers, Sequences, FiniteSets, TLC

VARIABLES
  now,          \* the wall clock, in days
  usage,        \* ApiUsage rows of provider "rentcast", by period
  markets,      \* Market rows, by id
  snapshots,    \* Snapshot rows
  req,          \* the requests in flight and their responses
  listing,      \* the last response of GET /api/v1/markets
  hideLog,      \* the responses of POST /api/v1/markets/hide, in order
  detail,       \* the last answer of the market detail page
  usageRows,    \* Usage rows (the older counter), count by period
  calls,        \* the calls of incrementRentCastUsage in flight and their results
  priorCalls    \* history: the calls of each period when the model starts

vars == <<now, usage, markets, snapshots, req, listing, hideLog, detail, usageRows,
          calls, priorCalls>>

(***************************************************************************)
(* Bounds of the model.                                                    *)
(***************************************************************************)
NumReq == 2            \* request slots, each serving one request
MaxNow == 1            \* last day the clock reaches
DaysLeftInMonth == 1   \* day on which the next calendar month starts
StaleLag == 7          \* age in days of an old lastUpdatedDate of the provider
MaxHides == 2          \* hide requests served
MaxCoreRows == 1       \* Snapshot rows the core refresh writes for a market
NumStoreReq == 1       \* request slots used next to the hide, list and refresh routes
NumCallers == 2        \* concurrent calls of incrementRentCastUsage

Requests == 1..NumReq

StoreRequests == {r \in Requests : r <= NumStoreReq}

(***************************************************************************)
(* Program constants.                                                      *)
(***************************************************************************)
RENTCAST_MONTHLY_LIMIT == 50
TTL_DAYS == 1          \* ttlHours = 24
TTL_DAYS_SUMMARY == 7  \* ttlDays = 7
null == -1             \* the status of a message that carries none

NoRow == [exists |-> FALSE, calls |-> 0]
UsageRow(n) == [exists |-> TRUE, calls |-> n]
NoMarket == [exists |-> FALSE, city |-> "null", state |-> "null", hidden |-> FALSE]
NoSnap == [id |-> 0, marketId |-> <<>>, propertyType |-> "none", asOf |-> 0,
           kpis |-> "none"]
NoAgg == [ok |-> FALSE, asOf |-> 0, kpis |-> "none"]
NoErr == <<>>
NoError == [message |-> <<>>, status |-> null, code |-> "none"]
NoResp == [status |-> 0, code |-> "none", message |-> <<>>, market |-> NoMarket,
           snapshot |-> NoSnap, stale |-> FALSE]

\* usage counts the current period may hold when the model starts
PriorCalls == {NoRow} \cup
  {UsageRow(n) : n \in {0, RENTCAST_MONTHLY_LIMIT - 2, RENTCAST_MONTHLY_LIMIT - 1,
                        RENTCAST_MONTHLY_LIMIT}}

Periods == {0, 1}

getYearMonth(d) == IF d < DaysLeftInMonth THEN 0 ELSE 1

(***************************************************************************)
(* Identifiers.  A zip is a sequence of characters; a market id is         *)
(* "zip:" followed by the zip.                                             *)
(***************************************************************************)
Digits == {"0", "1", "2", "3", "4", "5", "6", "7", "8", "9"}

SeededZip == <<"1", "8", "5", "0", "4">>
NewZip == <<"1", "0", "0", "0", "1">>

MarketIdOf(zip) == <<"zip:">> \o zip

MarketIds == {MarketIdOf(SeededZip), MarketIdOf(NewZip)}

\* CORE_MARKET_IDS, of which the seed creates the city markets
CORE_MARKET_IDS == {<<"city:PA:Scranton">>}

QueensZip == <<"1", "1", "3", "6", "8">>

AllMarketIds == MarketIds \cup CORE_MARKET_IDS \cup {MarketIdOf(QueensZip)}

IsFiveDigits(zip) == Len(zip) = 5 /\ \A i \in 1..Len(zip) : zip[i] \in Digits

RECURSIVE TrimStart(_)
TrimStart(s) == IF s # <<>> /\ Head(s) = " " THEN TrimStart(Tail(s)) ELSE s

RECURSIVE TrimEnd(_)
TrimEnd(s) ==
  IF s # <<>> /\ s[Len(s)] = " " THEN TrimEnd(SubSeq(s, 1, Len(s) - 1)) ELSE s

Trim(s) == TrimEnd(TrimStart(s))

ZipInputs == {SeededZip, NewZip, SeededZip \o <<" ">>, <<"1", "8", "5", "0">>}

\* the propertyType query parameter of the summary route
SummaryTypeParams == {"null", "sfh"}

(***************************************************************************)
(* Error messages are sequences of words.                                  *)
(***************************************************************************)
HttpStatuses == {401, 404, 429, 500}

StatusText ==
  [s \in HttpStatuses |->
     CASE s = 401 -> "401" [] s = 404 -> "404" [] s = 429 -> "429" [] s = 500 -> "500"]

\* rentcastFetch: `[RentCast] ${res.status} ${res.statusText}: ${text}`
HttpErrorMessage(s) == <<"[RentCast]", StatusText[s], "statusText:", "body">>

MissingKeyMessage == <<"RENTCAST_API_KEY", "not", "set">>
EmptyArrayMessage == <<"[RentCast]", "/v1/markets", "returned", "an", "empty", "array">>
LegacyLimitMessage == <<"RentCast", "monthly", "call", "limit", "reached">>
QuotaMessage == <<"API", "quota", "exhausted.">>
NoDataMessage == <<"No", "RentCast", "data", "available", "for", "that", "ZIP", "code.">>
RateLimitMessage == <<"RentCast", "rate", "limit/quota", "hit.">>
ProviderErrorMessage == <<"RentCast", "request", "failed.">>
ForeignKeyMessage == <<"Foreign", "key", "constraint", "violated">>
ServerErrorMessage == <<"Server", "error">>

\* what fetchRentCastAggregate can throw
ProviderErrors ==
  {HttpErrorMessage(s) : s \in HttpStatuses} \cup {MissingKeyMessage, EmptyArrayMessage}

makeHttpError(message, status, code) ==
  [message |-> message, status |-> status, code |-> code]

\* an Error object that carries a message only
PlainError(message) == [message |-> message, status |-> null, code |-> "none"]

\* /^\[RentCast\]\s+(\d{3})\b/
parseRentcastStatus(message) ==
  IF /\ Len(message) >= 2
     /\ message[1] = "[RentCast]"
     /\ \E s \in HttpStatuses : StatusText[s] = message[2]
  THEN CHOOSE s \in HttpStatuses : StatusText[s] = message[2]
  ELSE null

startsWithRentCast(message) == Len(message) >= 1 /\ message[1] = "[RentCast]"

(***************************************************************************)
(* withRentCastBudget: the refund policy and the error it throws.          *)
(***************************************************************************)
\* mutant: the variant of the guard with no refund at all
shouldRefundNever(status) == FALSE

\* mutant: a policy that refunds whatever the status
shouldRefundAlways(status) == TRUE

\* status == null ? true : status === 429 || status >= 500
shouldRefund(status) == IF status = null THEN TRUE ELSE status = 429 \/ status >= 500

\* mutant: the cap compared with lte
reserveWhereLte(row) == row.exists /\ row.calls <= RENTCAST_MONTHLY_LIMIT

\* calls: { lt: RENTCAST_MONTHLY_LIMIT }
reserveWhere(row) == row.exists /\ row.calls < RENTCAST_MONTHLY_LIMIT

QuotaExhaustedError == makeHttpError(QuotaMessage, 429, "RENTCAST_QUOTA_EXHAUSTED")

\* const s = status ?? 502, for a message that starts with "[RentCast]"
forwardedStatus(message) ==
  IF parseRentcastStatus(message) = null THEN 502 ELSE parseRentcastStatus(message)

\* mutant: the 404 branch without its refund
refundsNoDataNever(message) == FALSE

\* the second refund, of the 404 branch
refundsNoData(message) ==
  /\ message # LegacyLimitMessage
  /\ startsWithRentCast(message)
  /\ forwardedStatus(message) = 404

\* mutant: a catch that classifies nothing
guardErrorUnclassified(message) ==
  makeHttpError(<<"Upstream", "request", "failed:">> \o message, 502, "UPSTREAM_ERROR")

\* the error withRentCastBudget throws for the message of the operation's error
guardError(message) ==
  IF message = LegacyLimitMessage THEN QuotaExhaustedError
  ELSE IF startsWithRentCast(message)
  THEN IF forwardedStatus(message) = 404
       THEN makeHttpError(NoDataMessage, 422, "RENTCAST_NO_DATA")
       ELSE IF forwardedStatus(message) = 429
       THEN makeHttpError(RateLimitMessage, 429, "RENTCAST_RATE_LIMIT")
       ELSE makeHttpError(ProviderErrorMessage, 502, "RENTCAST_PROVIDER_ERROR")
  ELSE makeHttpError(<<"Upstream", "request", "failed:">> \o message, 502,
                     "UPSTREAM_ERROR")

(***************************************************************************)
(* Snapshot queries.                                                       *)
(***************************************************************************)
isFresh(asOf, ttlDays) == now - asOf < ttlDays

\* the TTL each route passes: 24 hours, and 7 days in the summary variant
ttlOf(kind) == IF kind = "summary006" THEN TTL_DAYS_SUMMARY ELSE TTL_DAYS

\* findFirst({ where, orderBy: { asOf: "desc" } }): a row of the greatest asOf
Latest(rows) ==
  IF rows = {} THEN {NoSnap}
  ELSE {s \in rows : \A t \in rows : t.asOf <= s.asOf}

\* where: { marketId }
RowsOfMarket(id) == {s \in snapshots : s.marketId = id}

\* where: { marketId, propertyType }
RowsOfMarketType(id, propertyType) ==
  {s \in snapshots : s.marketId = id /\ s.propertyType = propertyType}

\* mutant: a row stamped with the wall clock of the insert
NewSnapshotWallClock(id, propertyType, aggregate) ==
  [id |-> Cardinality(snapshots) + 1, marketId |-> id, propertyType |-> propertyType,
   asOf |-> now, kpis |-> aggregate.kpis]

\* the Snapshot row prisma.snapshot.create appends
NewSnapshot(id, propertyType, aggregate) ==
  [id |-> Cardinality(snapshots) + 1, marketId |-> id, propertyType |-> propertyType,
   asOf |-> aggregate.asOf, kpis |-> aggregate.kpis]

\* the column default of Snapshot.propertyType
PropertyTypeDefault == "all"

\* Snapshot_marketId_fkey
ForeignKeyHolds(id) == markets[id].exists

(***************************************************************************)
(* Requests.                                                               *)
(***************************************************************************)
IdleReq ==
  [kind |-> "none", pc |-> "idle", marketId |-> <<>>, existing |-> NoSnap,
   snapshot |-> NoSnap, aggregate |-> NoAgg, market |-> NoMarket,
   propertyType |-> "none", period |-> 0,
   callsBefore |-> 0, reserved |-> "none", invoked |-> FALSE, refunds |-> 0,
   marketBefore |-> NoMarket, decision |-> "none", abandoned |-> FALSE, loc |-> "none",
   err |-> NoErr, thrown |-> NoError, wrote |-> FALSE, resp |-> NoResp, startedAt |-> 0, checkedAt |-> 0,
   refundedAt |-> 0]

AddKinds == {"addMarket", "addMarket002"}
SummaryKinds == {"summary", "summary006"}

\* the request's record once it has answered
Respond(rec, resp) ==
  [rec EXCEPT !.pc = "done", !.resp = resp, !.snapshot = NoSnap, !.aggregate = NoAgg,
              !.market = NoMarket]

Json(status, code, message, market, snapshot, stale) ==
  [status |-> status, code |-> code, message |-> message, market |-> market,
   snapshot |-> snapshot, stale |-> stale]

\* catch of POST /api/v1/markets (src/app/api/v1/markets/route.ts)
addMarketCatch(e) ==
  IF e.message = LegacyLimitMessage
  THEN Json(429, "none", QuotaMessage, NoMarket, NoSnap, FALSE)
  ELSE Json(500, "none", ServerErrorMessage, NoMarket, NoSnap, FALSE)

\* catch of POST /api/v1/markets, the variant that passes the error through
addMarket002Catch(e) ==
  Json(IF e.status = null THEN 500 ELSE e.status,
       IF e.code = "none" THEN "SERVER_ERROR" ELSE e.code,
       e.message, NoMarket, NoSnap, FALSE)

\* mutant: a catch that does not fall back to the old snapshot
summaryCatchHardError(existing, e) ==
  Json(500, "none", e.message, NoMarket, NoSnap, FALSE)

\* catch of GET /api/v1/summary
summaryCatch(existing, e) ==
  IF existing # NoSnap
  THEN Json(200, "none", e.message, NoMarket, existing, TRUE)
  ELSE Json(500, "none", e.message, NoMarket, NoSnap, FALSE)

\* mutant: the fallback answer without the test that an old snapshot exists
summary006CatchNoTest(existing, e) ==
  Json(200, "none", e.message, NoMarket, existing, TRUE)

\* catch of GET /api/v1/summary, the variant with the 7 day TTL
summary006Catch(existing, e) ==
  IF existing # NoSnap
  THEN Json(200, "none", e.message, NoMarket, existing, TRUE)
  ELSE Json(500, "none", e.message, NoMarket, NoSnap, FALSE)

\* the thrown error reaches the catch block of the request's route
Catch(rec, e) ==
  LET caught == [rec EXCEPT !.thrown = e]
  IN CASE rec.kind = "addMarket" -> Respond(caught, addMarketCatch(e))
       [] rec.kind = "addMarket002" -> Respond(caught, addMarket002Catch(e))
       [] rec.kind = "summary" -> Respond(caught, summaryCatch(rec.existing, e))
       [] rec.kind = "summary006" -> Respond(caught, summary006Catch(rec.existing, e))

Set(r, rec) == req' = [req EXCEPT ![r] = rec]

(***************************************************************************)
(* POST /api/v1/markets                                                    *)
(***************************************************************************)
\* the propertyType of the body; body.propertyType ?? "sfh"
AddTypeParams == {"null", "condo"}

\* body parsing and the zip check
StartAddMarketTyped(r, kind, rawZip, propertyType) ==
  /\ req[r].pc = "idle"
  /\ LET zip == Trim(rawZip)
         rec == [req[r] EXCEPT !.kind = kind, !.startedAt = now,
                               !.propertyType = IF propertyType = "null" THEN "sfh"
                                                ELSE propertyType]
     IN IF ~IsFiveDigits(zip)
        THEN Set(r, Respond(rec, Json(400, IF kind = "addMarket002" THEN "INVALID_ZIP"
                                            ELSE "none",
                                      <<"zip", "(5", "digits)", "is", "required">>,
                                      NoMarket, NoSnap, FALSE)))
        ELSE Set(r, [rec EXCEPT !.pc = "findSnapshot", !.marketId = MarketIdOf(zip),
                                !.marketBefore = markets[MarketIdOf(zip)]])
  /\ UNCHANGED <<listing, hideLog, detail, usageRows, calls, priorCalls, now, usage, markets, snapshots>>

\* a request whose body has no propertyType
StartAddMarket(r, kind, rawZip) == StartAddMarketTyped(r, kind, rawZip, "null")

\* 1) find the latest snapshot; 2) stale or missing: enter withRentCastBudget
AddMarketFindSnapshot(r) ==
  /\ req[r].pc = "findSnapshot"
  /\ req[r].kind \in AddKinds
  /\ \E snap \in Latest(RowsOfMarket(req[r].marketId)) :
       LET rec == [req[r] EXCEPT !.existing = snap, !.snapshot = snap,
                                 !.checkedAt = now]
       IN IF snap = NoSnap \/ ~isFresh(snap.asOf, ttlOf(req[r].kind))
          THEN Set(r, [rec EXCEPT !.pc = "ensure", !.period = getYearMonth(now)])
          ELSE Set(r, [rec EXCEPT !.pc = "upsertMarket"])
  /\ UNCHANGED <<listing, hideLog, detail, usageRows, calls, priorCalls, now, usage, markets, snapshots>>

(***************************************************************************)
(* withRentCastBudget                                                      *)
(***************************************************************************)
\* 1) ensure the row exists
Ensure(r) ==
  /\ req[r].pc = "ensure"
  /\ usage' = [usage EXCEPT ![req[r].period] =
                 IF @.exists THEN @ ELSE UsageRow(0)]
  /\ Set(r, [req[r] EXCEPT !.pc = "reserve",
                           !.callsBefore = usage'[req[r].period].calls])
  /\ UNCHANGED <<listing, hideLog, detail, usageRows, calls, priorCalls, now, markets, snapshots>>

\* mutant: an update with no condition on calls, so every caller reserves
ReserveUnconditional(r) ==
  /\ req[r].pc = "reserve"
  /\ usage' = [usage EXCEPT ![req[r].period].calls = @ + 1]
  /\ Set(r, [req[r] EXCEPT !.pc = "op", !.reserved = "ok", !.invoked = TRUE])
  /\ UNCHANGED <<listing, hideLog, detail, usageRows, calls, priorCalls, now, markets, snapshots>>

\* mutant: an advisory check, the operation runs although the reservation failed
ReserveAdvisory(r) ==
  /\ req[r].pc = "reserve"
  /\ LET row == usage[req[r].period]
     IN /\ usage' = IF row.exists /\ row.calls < RENTCAST_MONTHLY_LIMIT
                    THEN [usage EXCEPT ![req[r].period].calls = @ + 1]
                    ELSE usage
        /\ Set(r, [req[r] EXCEPT !.pc = "op", !.invoked = TRUE,
                                 !.reserved = IF row.exists
                                                 /\ row.calls < RENTCAST_MONTHLY_LIMIT
                                              THEN "ok" ELSE "denied"])
  /\ UNCHANGED <<listing, hideLog, detail, usageRows, calls, priorCalls, now, markets, snapshots>>

\* 2) the atomic reserve; reserved.count === 0 throws, else fn() is called
Reserve(r) ==
  /\ req[r].pc = "reserve"
  /\ LET row == usage[req[r].period]
     IN IF reserveWhere(row)
        THEN /\ usage' = [usage EXCEPT ![req[r].period].calls = @ + 1]
             /\ Set(r, [req[r] EXCEPT !.pc = "op", !.reserved = "ok",
                                      !.invoked = TRUE])
        ELSE /\ usage' = usage
             /\ Set(r, Catch([req[r] EXCEPT !.reserved = "denied"],
                             QuotaExhaustedError))
  /\ UNCHANGED <<listing, hideLog, detail, usageRows, calls, priorCalls, now, markets, snapshots>>

\* where the request goes when fn() has returned the aggregate
AfterFetch(kind) == IF kind = "addMarket002" THEN "upsertMarket" ELSE "createSnapshot"

\* 3) fn() returns: fetchRentCastAggregate resolves with asOf = lastUpdatedDate or now
OpSucceeds(r) ==
  /\ req[r].pc = "op"
  /\ \E asOf \in {now, now - StaleLag} :
       Set(r, [req[r] EXCEPT !.pc = AfterFetch(req[r].kind),
                             !.decision = IF req[r].reserved = "ok" THEN "keep" ELSE @,
                             !.aggregate = [ok |-> TRUE, asOf |-> asOf,
                                            kpis |-> "kpis"]])
  /\ UNCHANGED <<listing, hideLog, detail, usageRows, calls, priorCalls, now, usage, markets, snapshots>>

\* the step after the catch block has seen the error and done `done` refunds
AfterError(rec, message, done) ==
  IF done = 0 /\ shouldRefund(parseRentcastStatus(message))
  THEN [rec EXCEPT !.pc = "refund"]
  ELSE IF refundsNoData(message)
  THEN [rec EXCEPT !.pc = "refund404"]
  ELSE Catch([rec EXCEPT !.decision = IF done = 0 THEN "keep" ELSE @],
             guardError(message))

\* 3) fn() throws inside withRentCastBudget
OpFails(r) ==
  /\ req[r].pc = "op"
  /\ req[r].kind \in AddKinds
  /\ \E message \in ProviderErrors :
       Set(r, AfterError([req[r] EXCEPT !.err = message], message, 0))
  /\ UNCHANGED <<listing, hideLog, detail, usageRows, calls, priorCalls, now, usage, markets, snapshots>>

\* mutant: the refund looks the month up again
RefundCurrentMonth(r) ==
  /\ req[r].pc = "refund"
  /\ usage' = [usage EXCEPT ![getYearMonth(now)].calls = @ - 1]
  /\ Set(r, AfterError([req[r] EXCEPT !.refunds = @ + 1, !.decision = "refund",
                                     !.refundedAt = now],
                        req[r].err, 1))
  /\ UNCHANGED <<listing, hideLog, detail, usageRows, calls, priorCalls, now, markets, snapshots>>

\* if (shouldRefund) decrement
Refund(r) ==
  /\ req[r].pc = "refund"
  /\ usage' = [usage EXCEPT ![req[r].period].calls = @ - 1]
  /\ Set(r, AfterError([req[r] EXCEPT !.refunds = @ + 1, !.decision = "refund",
                                     !.refundedAt = now],
                        req[r].err, 1))
  /\ UNCHANGED <<listing, hideLog, detail, usageRows, calls, priorCalls, now, markets, snapshots>>

\* mutant: the 404 branch answers without giving the call back
Refund404NoDecrement(r) ==
  /\ req[r].pc = "refund404"
  /\ usage' = usage
  /\ Set(r, Catch([req[r] EXCEPT !.refunds = @ + 1, !.decision = "refund",
                                !.refundedAt = now],
                   guardError(req[r].err)))
  /\ UNCHANGED <<listing, hideLog, detail, usageRows, calls, priorCalls, now, markets, snapshots>>

\* the refund of the 404 branch, then RENTCAST_NO_DATA
Refund404(r) ==
  /\ req[r].pc = "refund404"
  /\ usage' = [usage EXCEPT ![req[r].period].calls = @ - 1]
  /\ Set(r, Catch([req[r] EXCEPT !.refunds = @ + 1, !.decision = "refund",
                                !.refundedAt = now],
                   guardError(req[r].err)))
  /\ UNCHANGED <<listing, hideLog, detail, usageRows, calls, priorCalls, now, markets, snapshots>>

\* mutant: the handler is cancelled with its caller
AbandonCancels(r) ==
  /\ req[r].pc = "op" /\ req[r].reserved = "ok" /\ ~req[r].abandoned
  /\ Set(r, [req[r] EXCEPT !.abandoned = TRUE, !.pc = "done"])
  /\ UNCHANGED <<listing, hideLog, detail, usageRows, calls, priorCalls, now, usage, markets, snapshots>>

\* the caller goes away while fn() is in flight; the handler reads no abort
\* signal and runs on
Abandon(r) ==
  /\ req[r].pc = "op" /\ req[r].reserved = "ok" /\ ~req[r].abandoned
  /\ Set(r, [req[r] EXCEPT !.abandoned = TRUE])
  /\ UNCHANGED <<listing, hideLog, detail, usageRows, calls, priorCalls, now, usage, markets, snapshots>>

(***************************************************************************)
(* POST /api/v1/markets, continued                                         *)
(***************************************************************************)
AddMarketResponse(rec) ==
  Respond(rec, Json(200, "none", <<>>, rec.market, rec.snapshot, FALSE))

\* mutant: Snapshot rows unique by (marketId, asOf)
AddMarketCreateSnapshotUnique(r) ==
  /\ req[r].pc = "createSnapshot"
  /\ req[r].kind \in AddKinds
  /\ IF /\ ForeignKeyHolds(req[r].marketId)
        /\ \A s \in RowsOfMarket(req[r].marketId) : s.asOf # req[r].aggregate.asOf
     THEN LET row == NewSnapshot(req[r].marketId, PropertyTypeDefault, req[r].aggregate)
              rec == [req[r] EXCEPT !.snapshot = row, !.wrote = TRUE]
          IN /\ snapshots' = snapshots \cup {row}
             /\ IF req[r].kind = "addMarket"
                THEN Set(r, [rec EXCEPT !.pc = "upsertMarket"])
                ELSE Set(r, AddMarketResponse(rec))
     ELSE /\ snapshots' = snapshots
          /\ Set(r, Catch(req[r], PlainError(ServerErrorMessage)))
  /\ UNCHANGED <<listing, hideLog, detail, usageRows, calls, priorCalls, now, usage, markets>>

\* prisma.snapshot.create of the add-market routes
AddMarketCreateSnapshot(r) ==
  /\ req[r].pc = "createSnapshot"
  /\ req[r].kind \in AddKinds
  /\ IF ForeignKeyHolds(req[r].marketId)
     THEN LET row == NewSnapshot(req[r].marketId, PropertyTypeDefault, req[r].aggregate)
              rec == [req[r] EXCEPT !.snapshot = row, !.wrote = TRUE]
          IN /\ snapshots' = snapshots \cup {row}
             /\ IF req[r].kind = "addMarket"
                THEN Set(r, [rec EXCEPT !.pc = "upsertMarket"])
                ELSE Set(r, AddMarketResponse(rec))
     ELSE /\ snapshots' = snapshots
          /\ Set(r, Catch(req[r], PlainError(ForeignKeyMessage)))
  /\ UNCHANGED <<listing, hideLog, detail, usageRows, calls, priorCalls, now, usage, markets>>

\* mutant: an upsert whose update leaves the hidden flag as it is
AddMarketUpsertKeepsHidden(r) ==
  /\ req[r].pc = "upsertMarket"
  /\ \E loc \in {"null", "found"} :
       LET old == markets[req[r].marketId]
           city == IF loc = "null" THEN "null" ELSE "city"
           state == IF loc = "null" THEN "null" ELSE "ST"
           row == IF old.exists
                  THEN [old EXCEPT !.city = IF city = "null" THEN @ ELSE city,
                                   !.state = IF state = "null" THEN @ ELSE state]
                  ELSE [exists |-> TRUE, city |-> city, state |-> state,
                        hidden |-> FALSE]
           rec == [req[r] EXCEPT !.market = row, !.loc = loc]
       IN /\ markets' = [markets EXCEPT ![req[r].marketId] = row]
          /\ IF req[r].kind = "addMarket002" /\ req[r].aggregate.ok
             THEN Set(r, [rec EXCEPT !.pc = "createSnapshot"])
             ELSE Set(r, AddMarketResponse(rec))
  /\ UNCHANGED <<listing, hideLog, detail, usageRows, calls, priorCalls, now, usage, snapshots>>

\* mutant: an update that stores the null city and state
AddMarketUpsertOverwrites(r) ==
  /\ req[r].pc = "upsertMarket"
  /\ \E loc \in {"null", "found"} :
       LET city == IF loc = "null" THEN "null" ELSE "city"
           state == IF loc = "null" THEN "null" ELSE "ST"
           row == [exists |-> TRUE, city |-> city, state |-> state, hidden |-> FALSE]
           rec == [req[r] EXCEPT !.market = row, !.loc = loc]
       IN /\ markets' = [markets EXCEPT ![req[r].marketId] = row]
          /\ IF req[r].kind = "addMarket002" /\ req[r].aggregate.ok
             THEN Set(r, [rec EXCEPT !.pc = "createSnapshot"])
             ELSE Set(r, AddMarketResponse(rec))
  /\ UNCHANGED <<listing, hideLog, detail, usageRows, calls, priorCalls, now, usage, snapshots>>

\* resolveZip, then prisma.market.upsert
AddMarketUpsert(r) ==
  /\ req[r].pc = "upsertMarket"
  /\ \E loc \in {"null", "found"} :
       LET old == markets[req[r].marketId]
           city == IF loc = "null" THEN "null" ELSE "city"
           state == IF loc = "null" THEN "null" ELSE "ST"
           row == IF old.exists
                  THEN [old EXCEPT !.city = IF city = "null" THEN @ ELSE city,
                                   !.state = IF state = "null" THEN @ ELSE state,
                                   !.hidden = FALSE]
                  ELSE [exists |-> TRUE, city |-> city, state |-> state,
                        hidden |-> FALSE]
           rec == [req[r] EXCEPT !.market = row, !.loc = loc]
       IN /\ markets' = [markets EXCEPT ![req[r].marketId] = row]
          /\ IF req[r].kind = "addMarket002" /\ req[r].aggregate.ok
             THEN Set(r, [rec EXCEPT !.pc = "createSnapshot"])
             ELSE Set(r, AddMarketResponse(rec))
  /\ UNCHANGED <<listing, hideLog, detail, usageRows, calls, priorCalls, now, usage, snapshots>>

(***************************************************************************)
(* GET /api/v1/summary                                                     *)
(***************************************************************************)
\* propertyType: "all" in the summary route; dims.propertyType ?? "all" in its variant
summaryPropertyType(kind, propertyType) ==
  IF kind = "summary006" /\ propertyType # "null" THEN propertyType ELSE "all"

\* marketId check, findFirst, needsRefresh; a refresh calls the provider
StartSummary(r, kind, marketId, propertyType) ==
  /\ req[r].pc = "idle"
  /\ LET rec == [req[r] EXCEPT !.kind = kind, !.startedAt = now]
     IN IF marketId = <<>>
        THEN Set(r, Respond(rec, Json(400, "none", <<"marketId", "is", "required">>,
                                      NoMarket, NoSnap, FALSE)))
        ELSE Set(r, [rec EXCEPT !.pc = "findSnapshot", !.marketId = marketId,
                                !.propertyType = summaryPropertyType(kind, propertyType)])
  /\ UNCHANGED <<listing, hideLog, detail, usageRows, calls, priorCalls, now, usage, markets, snapshots>>

SummaryFindSnapshot(r) ==
  /\ req[r].pc = "findSnapshot"
  /\ req[r].kind \in SummaryKinds
  /\ \E snap \in Latest(RowsOfMarketType(req[r].marketId, req[r].propertyType)) :
       LET rec == [req[r] EXCEPT !.existing = snap, !.snapshot = snap,
                                 !.checkedAt = now]
       IN IF snap = NoSnap \/ ~isFresh(snap.asOf, ttlOf(req[r].kind))
          THEN Set(r, [rec EXCEPT !.pc = "op", !.invoked = TRUE])
          ELSE Set(r, Respond(rec, Json(200, "none", <<>>, NoMarket, snap, FALSE)))
  /\ UNCHANGED <<listing, hideLog, detail, usageRows, calls, priorCalls, now, usage, markets, snapshots>>

\* fetchRentCastAggregate throws inside the try of the summary route
SummaryFetchFails(r) ==
  /\ req[r].pc = "op"
  /\ req[r].kind \in SummaryKinds
  /\ \E message \in ProviderErrors :
       Set(r, Catch([req[r] EXCEPT !.err = message], PlainError(message)))
  /\ UNCHANGED <<listing, hideLog, detail, usageRows, calls, priorCalls, now, usage, markets, snapshots>>

\* prisma.snapshot.create of the summary route, inside the try
SummaryCreateSnapshot(r) ==
  /\ req[r].pc = "createSnapshot"
  /\ req[r].kind \in SummaryKinds
  /\ IF ForeignKeyHolds(req[r].marketId)
     THEN LET row == NewSnapshot(req[r].marketId, req[r].propertyType, req[r].aggregate)
          IN /\ snapshots' = snapshots \cup {row}
             /\ Set(r, Respond([req[r] EXCEPT !.snapshot = row, !.wrote = TRUE],
                               Json(200, "none", <<>>, NoMarket, row, FALSE)))
     ELSE /\ snapshots' = snapshots
          /\ Set(r, Catch(req[r], PlainError(ForeignKeyMessage)))
  /\ UNCHANGED <<listing, hideLog, detail, usageRows, calls, priorCalls, now, usage, markets>>

(***************************************************************************)
(* POST /api/v1/markets/hide                                               *)
(***************************************************************************)
HideInputs == MarketIds \cup {<<>>}

HideResponse(id, status, ok) == [id |-> id, status |-> status, ok |-> ok]

\* mutant: a hide that flips the flag
HideMarketToggle(id) ==
  /\ Len(hideLog) < MaxHides
  /\ id # <<>> /\ markets[id].exists
  /\ markets' = [markets EXCEPT ![id].hidden = ~@]
  /\ hideLog' = Append(hideLog, HideResponse(id, 200, TRUE))
  /\ UNCHANGED <<listing, detail, usageRows, calls, priorCalls, now, usage, snapshots, req>>

\* mutant: a hard delete of the market and of its snapshots
HideMarketDelete(id) ==
  /\ Len(hideLog) < MaxHides
  /\ id # <<>> /\ markets[id].exists
  /\ markets' = [markets EXCEPT ![id] = NoMarket]
  /\ snapshots' = {s \in snapshots : s.marketId # id}
  /\ hideLog' = Append(hideLog, HideResponse(id, 200, TRUE))
  /\ UNCHANGED <<listing, detail, usageRows, calls, priorCalls, now, usage, req>>

\* the id check, then prisma.market.update, which throws when no row has the id
HideMarket(id) ==
  /\ Len(hideLog) < MaxHides
  /\ IF id = <<>>
     THEN /\ markets' = markets
          /\ hideLog' = Append(hideLog, HideResponse(id, 400, FALSE))
     ELSE IF ~markets[id].exists
     THEN /\ markets' = markets
          /\ hideLog' = Append(hideLog, HideResponse(id, 500, FALSE))
     ELSE /\ markets' = [markets EXCEPT ![id].hidden = TRUE]
          /\ hideLog' = Append(hideLog, HideResponse(id, 200, TRUE))
  /\ UNCHANGED <<listing, detail, usageRows, calls, priorCalls, now, usage, snapshots, req>>

(***************************************************************************)
(* GET /api/v1/markets                                                     *)
(***************************************************************************)
NoListing == [kind |-> "none", items |-> {}]

\* the route (and its variant with error codes, the same query), and the variant
\* with no where clause
ListKinds == {"markets", "marketsGeo"}

\* where: { hidden: false }, absent in one variant
listWhere(kind, m) == kind = "marketsGeo" \/ ~m.hidden

\* snapshots: { orderBy: { asOf: "desc" }, take: 1 }, mapped to the card summary
listSummary(id) ==
  IF RowsOfMarket(id) = {} THEN "null"
  ELSE LET snap == CHOOSE s \in Latest(RowsOfMarket(id)) : TRUE
       IN <<snap.asOf, snap.kpis>>

listItems(kind) ==
  {[id |-> id, city |-> markets[id].city, state |-> markets[id].state,
    hidden |-> markets[id].hidden, summary |-> listSummary(id)] :
     id \in {i \in AllMarketIds : markets[i].exists /\ listWhere(kind, markets[i])}}

ListMarkets(kind) ==
  /\ listing' = [kind |-> kind, items |-> listItems(kind)]
  /\ UNCHANGED <<hideLog, detail, usageRows, calls, priorCalls, now, usage, markets, snapshots, req>>

(***************************************************************************)
(* POST /api/v1/admin/rentcast/refresh-core                                *)
(***************************************************************************)
\* one turn of the loop: the fetch resolves or throws, then snapshot.create
RefreshCore(id) ==
  /\ Cardinality(RowsOfMarket(id)) < MaxCoreRows
  /\ \E resolves \in BOOLEAN, asOf \in {now, now - StaleLag} :
       IF resolves /\ ForeignKeyHolds(id)
       THEN snapshots' = snapshots \cup
              {NewSnapshot(id, "all", [ok |-> TRUE, asOf |-> asOf, kpis |-> "kpis"])}
       ELSE snapshots' = snapshots
  /\ UNCHANGED <<listing, hideLog, detail, usageRows, calls, priorCalls, now, usage, markets, req>>

(***************************************************************************)
(* The market detail page, /markets/[id]                                   *)
(***************************************************************************)
\* old city ids -> canonical zip ids
MARKET_ALIAS ==
  (<<"city:PA:Scranton">> :> MarketIdOf(SeededZip)) @@
  (<<"city:NY:Queens">> :> MarketIdOf(QueensZip))

\* names every object literal inherits from Object.prototype
ObjectPrototypeKeys == {<<"constructor">>, <<"toString">>}

\* MARKET_ALIAS[rawId]: an own entry, an inherited member, or undefined
aliasLookup(rawId) ==
  IF rawId \in DOMAIN MARKET_ALIAS THEN MARKET_ALIAS[rawId]
  ELSE IF rawId \in ObjectPrototypeKeys THEN <<"[inherited]">> \o rawId
  ELSE <<"undefined">>

\* MARKET_ALIAS[rawId] ?? rawId
resolveAlias(rawId) ==
  IF aliasLookup(rawId) = <<"undefined">> THEN rawId ELSE aliasLookup(rawId)

\* prisma.market.findUnique({ where: { id } }): null when no row has the id; an id
\* that is not a string is rejected by the client
findUniqueMarket(id) ==
  IF Head(id) = "[inherited]" THEN [outcome |-> "error", market |-> NoMarket]
  ELSE IF id \in AllMarketIds /\ markets[id].exists
  THEN [outcome |-> "page", market |-> markets[id]]
  ELSE [outcome |-> "notFound", market |-> NoMarket]

NoDetail == [rawId |-> <<>>, id |-> <<>>, outcome |-> "none", market |-> NoMarket]

DetailInputs ==
  DOMAIN MARKET_ALIAS \cup MarketIds \cup {MarketIdOf(QueensZip)} \cup
  ObjectPrototypeKeys \cup {<<"zip:", "9", "9", "9", "9", "9">>}

MarketDetailPage(rawId) ==
  /\ LET id == resolveAlias(rawId)
         found == findUniqueMarket(id)
     IN detail' = [rawId |-> rawId, id |-> id, outcome |-> found.outcome,
                   market |-> found.market]
  /\ UNCHANGED <<listing, hideLog, usageRows, calls, priorCalls, now, usage, markets, snapshots, req>>

(***************************************************************************)
(* The clock, and the specification.                                       *)
(***************************************************************************)
Tick ==
  /\ now < MaxNow
  /\ now' = now + 1
  /\ UNCHANGED <<listing, hideLog, detail, usageRows, calls, priorCalls, usage, markets, snapshots, req>>

SeededMarket == [exists |-> TRUE, city |-> "Scranton", state |-> "PA", hidden |-> FALSE]

\* the rows of the seed scripts
SeededMarketOf(id) ==
  IF id = MarketIdOf(QueensZip)
  THEN [exists |-> TRUE, city |-> "Queens", state |-> "NY", hidden |-> FALSE]
  ELSE SeededMarket

(***************************************************************************)
(* incrementRentCastUsage, the older read-then-write counter               *)
(***************************************************************************)
Callers == 1..NumCallers

incrementLimit == 50   \* limit = 50

IdleCall == [pc |-> "idle", period |-> 0, row |-> null, ok |-> FALSE, count |-> null]

\* the counts the Usage row of the current month may hold when the calls start
StoredCounts == {null, incrementLimit - 2, incrementLimit - 1, incrementLimit}

\* prisma.usage.upsert({ create: { count: 0 }, update: {} }), then the test of
\* the count that was read
IncrementUpsert(c) ==
  LET period == getYearMonth(now)
      row == IF usageRows[period] = null THEN 0 ELSE usageRows[period]
  IN /\ calls[c].pc = "idle"
     /\ usageRows' = [usageRows EXCEPT ![period] = row]
     /\ calls' = [calls EXCEPT ![c] =
                    IF row >= incrementLimit
                    THEN [pc |-> "done", period |-> period, row |-> row,
                          ok |-> FALSE, count |-> row]
                    ELSE [pc |-> "update", period |-> period, row |-> row,
                          ok |-> FALSE, count |-> null]]
     /\ UNCHANGED <<now, usage, markets, snapshots, req, listing, hideLog, detail,
                    priorCalls>>

\* mutant: the increment is conditional on the stored count
IncrementUpdateGuarded(c) ==
  LET period == calls[c].period
      fits == usageRows[period] < incrementLimit
  IN /\ calls[c].pc = "update"
     /\ usageRows' = [usageRows EXCEPT ![period] = IF fits THEN @ + 1 ELSE @]
     /\ calls' = [calls EXCEPT ![c].pc = "done", ![c].ok = fits,
                               ![c].count = usageRows'[period]]
     /\ UNCHANGED <<now, usage, markets, snapshots, req, listing, hideLog, detail,
                    priorCalls>>

\* prisma.usage.update({ data: { count: { increment: 1 } } })
IncrementUpdate(c) ==
  LET period == calls[c].period
  IN /\ calls[c].pc = "update"
     /\ usageRows' = [usageRows EXCEPT ![period] = @ + 1]
     /\ calls' = [calls EXCEPT ![c].pc = "done", ![c].ok = TRUE,
                               ![c].count = usageRows'[period]]
     /\ UNCHANGED <<now, usage, markets, snapshots, req, listing, hideLog, detail,
                    priorCalls>>

Init ==
  /\ now = 0
  /\ \E prior \in PriorCalls : usage = [p \in Periods |-> IF p = 0 THEN prior ELSE NoRow]
  /\ markets = [id \in AllMarketIds |->
                  IF id = MarketIdOf(NewZip) THEN NoMarket ELSE SeededMarketOf(id)]
  /\ snapshots = {}
  /\ req = [r \in Requests |-> IdleReq]
  /\ listing = NoListing
  /\ hideLog = <<>>
  /\ detail = NoDetail
  /\ usageRows = [p \in Periods |-> null]
  /\ calls = [c \in Callers |-> IdleCall]
  /\ priorCalls = [p \in Periods |-> usage[p].calls]

\* the steps of an add-market request that has started
AddMarketStep(r) ==
  \/ AddMarketFindSnapshot(r)
  \/ Ensure(r)
  \/ Reserve(r)
  \/ OpSucceeds(r)
  \/ OpFails(r)
  \/ Refund(r)
  \/ Refund404(r)
  \/ AddMarketCreateSnapshot(r)
  \/ AddMarketUpsert(r)

\* the steps of a summary request that has started
SummaryStep(r) ==
  \/ SummaryFindSnapshot(r)
  \/ SummaryFetchFails(r)
  \/ SummaryCreateSnapshot(r)

\* slots are taken in order
InOrder(r) == \A q \in Requests : q < r => req[q].pc # "idle"

\* concurrent add-market requests
Next ==
  \/ Tick
  \/ \E r \in Requests, kind \in AddKinds, rawZip \in ZipInputs :
       InOrder(r) /\ StartAddMarket(r, kind, rawZip)
  \/ \E r \in Requests : AddMarketStep(r)

Spec == Init /\ [][Next]_vars

\* requests served one after the other
NoneActive == \A q \in Requests : req[q].pc \in {"idle", "done"}

NextSeq ==
  \/ Tick
  \/ \E r \in Requests, kind \in AddKinds, rawZip \in ZipInputs :
       NoneActive /\ InOrder(r) /\ StartAddMarket(r, kind, rawZip)
  \/ \E r \in Requests, kind \in SummaryKinds, marketId \in MarketIds \cup {<<>>},
          propertyType \in SummaryTypeParams :
       NoneActive /\ InOrder(r) /\ StartSummary(r, kind, marketId, propertyType)
  \/ \E r \in Requests : AddMarketStep(r)
  \/ \E r \in Requests : SummaryStep(r)

SpecSeq == Init /\ [][NextSeq]_vars

\* requests served one after the other, add-market with any propertyType
NextTyped ==
  \/ Tick
  \/ \E r \in Requests, kind \in AddKinds, rawZip \in {SeededZip, NewZip},
          propertyType \in AddTypeParams :
       NoneActive /\ InOrder(r) /\ StartAddMarketTyped(r, kind, rawZip, propertyType)
  \/ \E r \in Requests, marketId \in MarketIds, propertyType \in SummaryTypeParams :
       NoneActive /\ InOrder(r) /\ StartSummary(r, "summary006", marketId, propertyType)
  \/ \E r \in Requests : AddMarketStep(r)
  \/ \E r \in Requests : SummaryStep(r)

SpecTyped == Init /\ [][NextTyped]_vars

\* add-market requests whose caller may go away; a handler that can take a step
\* is resumed by the event loop, and the provider call settles
NextLive ==
  \/ Tick
  \/ \E r \in StoreRequests, kind \in AddKinds, rawZip \in {SeededZip, NewZip} :
       StartAddMarket(r, kind, rawZip)
  \/ \E r \in StoreRequests : AddMarketStep(r)
  \/ \E r \in StoreRequests : Abandon(r)

SpecLive ==
  Init /\ [][NextLive]_vars /\ \A r \in StoreRequests : WF_vars(AddMarketStep(r))

\* concurrent calls of incrementRentCastUsage on a stored Usage row
InitUsage ==
  /\ now = 0
  /\ usage = [p \in Periods |-> NoRow]
  /\ markets = [id \in AllMarketIds |->
                  IF id = MarketIdOf(NewZip) THEN NoMarket ELSE SeededMarketOf(id)]
  /\ snapshots = {}
  /\ req = [r \in Requests |-> IdleReq]
  /\ listing = NoListing
  /\ hideLog = <<>>
  /\ detail = NoDetail
  /\ \E stored \in StoredCounts :
       usageRows = [p \in Periods |-> IF p = 0 THEN stored ELSE null]
  /\ calls = [c \in Callers |-> IdleCall]
  /\ priorCalls = [p \in Periods |-> usage[p].calls]

NextUsage ==
  \/ Tick
  \/ \E c \in Callers : IncrementUpsert(c)
  \/ \E c \in Callers : IncrementUpdate(c)

SpecUsage == InitUsage /\ [][NextUsage]_vars

\* every operation on the store, requests served one after the other, within a day
NextStore ==
  \/ \E r \in StoreRequests, kind \in AddKinds, rawZip \in ZipInputs :
       NoneActive /\ InOrder(r) /\ StartAddMarket(r, kind, rawZip)
  \/ \E r \in StoreRequests, kind \in SummaryKinds, marketId \in MarketIds \cup {<<>>},
          propertyType \in SummaryTypeParams :
       NoneActive /\ InOrder(r) /\ StartSummary(r, kind, marketId, propertyType)
  \/ \E r \in StoreRequests : AddMarketStep(r)
  \/ \E r \in StoreRequests : SummaryStep(r)
  \/ \E id \in HideInputs : NoneActive /\ HideMarket(id)
  \/ \E kind \in ListKinds : NoneActive /\ ListMarkets(kind)
  \/ \E id \in CORE_MARKET_IDS : NoneActive /\ RefreshCore(id)

\* the Snapshot rows earlier requests may have left for the seeded market
StoredSnapshots ==
  {{}} \cup {{[id |-> 1, marketId |-> MarketIdOf(SeededZip),
               propertyType |-> PropertyTypeDefault, asOf |-> asOf, kpis |-> "kpis"]} :
             asOf \in {0, 0 - StaleLag}}

\* the store after the seed and earlier traffic
InitStore ==
  /\ now = 0
  /\ \E prior \in {UsageRow(0), UsageRow(RENTCAST_MONTHLY_LIMIT)} :
       usage = [p \in Periods |-> IF p = 0 THEN prior ELSE NoRow]
  /\ markets = [id \in AllMarketIds |->
                  IF id = MarketIdOf(NewZip) THEN NoMarket ELSE SeededMarketOf(id)]
  /\ snapshots \in StoredSnapshots
  /\ req = [r \in Requests |-> IdleReq]
  /\ listing = NoListing
  /\ hideLog = <<>>
  /\ detail = NoDetail
  /\ usageRows = [p \in Periods |-> null]
  /\ calls = [c \in Callers |-> IdleCall]
  /\ priorCalls = [p \in Periods |-> usage[p].calls]

SpecStore == InitStore /\ [][NextStore]_vars

\* the detail page next to add-market and hide requests
NextDetail ==
  \/ \E r \in StoreRequests, kind \in AddKinds, rawZip \in ZipInputs :
       NoneActive /\ InOrder(r) /\ StartAddMarket(r, kind, rawZip)
  \/ \E r \in StoreRequests : AddMarketStep(r)
  \/ \E id \in HideInputs : NoneActive /\ HideMarket(id)
  \/ \E rawId \in DetailInputs : MarketDetailPage(rawId)

SpecDetail == InitStore /\ [][NextDetail]_vars

(***************************************************************************)
(* Properties of the budget guard.                                         *)
(***************************************************************************)
Min(a, b) == IF a < b THEN a ELSE b

\* the requests that have run the reserve step in period p
Reserving(p) == {r \in Requests : req[r].reserved # "none" /\ req[r].period = p}

Reserved(p) == {r \in Reserving(p) : req[r].reserved = "ok"}

\* C1: whatever the interleaving of the ensure, reserve, operation and refund
\* steps of concurrent callers, the calls of a period never exceed the monthly limit.
C1_CallsNeverExceedLimit ==
  \A p \in Periods : usage[p].calls <= RENTCAST_MONTHLY_LIMIT

\* two callers inside the guard at once, one holding the reservation that
\* filled the period, the other rejected
C1_Witness ==
  \E r1, r2 \in Requests :
    /\ r1 # r2
    /\ req[r1].period = req[r2].period
    /\ req[r1].reserved = "ok" /\ req[r1].pc = "op"
    /\ req[r2].reserved = "denied"
    /\ usage[req[r1].period].calls = RENTCAST_MONTHLY_LIMIT

\* C2: of the N callers that have run the reserve step in a period that started
\* with priorCalls reservations, with no refund so far, exactly
\* min(N, limit - priorCalls) hold a reservation and the others were rejected.
C2_ExactlyMinSucceed ==
  \A p \in Periods :
    (\A r \in Reserving(p) : req[r].refunds = 0)
      => /\ Cardinality(Reserved(p)) =
              Min(Cardinality(Reserving(p)), RENTCAST_MONTHLY_LIMIT - priorCalls[p])
         /\ \A r \in Reserving(p) \ Reserved(p) : req[r].thrown = QuotaExhaustedError

\* two callers have reserved with one slot left: one succeeded, one was rejected
C2_Witness ==
  \E p \in Periods :
    /\ priorCalls[p] = RENTCAST_MONTHLY_LIMIT - 1
    /\ Cardinality(Reserving(p)) = 2
    /\ Cardinality(Reserved(p)) = 1
    /\ \A r \in Reserving(p) : req[r].refunds = 0

\* C3: a reserve step that finds the calls at the limit throws
\* RENTCAST_QUOTA_EXHAUSTED (429), never invokes the operation and leaves the
\* calls unchanged, with no increment and no refund.
C3_QuotaExhaustedFailsFast ==
  /\ [](\A r \in Requests :
          req[r].reserved = "denied"
            => /\ req[r].thrown = makeHttpError(QuotaMessage, 429,
                                                "RENTCAST_QUOTA_EXHAUSTED")
               /\ req[r].pc = "done"
               /\ ~req[r].invoked
               /\ req[r].refunds = 0)
  /\ [][\A r \in Requests :
          (req[r].pc = "reserve" /\ req'[r].pc # "reserve"
             /\ usage[req[r].period].calls >= RENTCAST_MONTHLY_LIMIT)
            => (usage' = usage /\ req'[r].reserved = "denied")]_vars

\* a caller was rejected at the limit
C3_Witness ==
  \E r \in Requests :
    /\ req[r].reserved = "denied"
    /\ usage[req[r].period].calls = RENTCAST_MONTHLY_LIMIT

\* no request has started after request r
LatestReq(r) == \A q \in Requests : q > r => req[q].pc = "idle"

\* upstream 429, 5xx, 404 and errors that carry no status
RefundableErrors ==
  {HttpErrorMessage(429), HttpErrorMessage(500), HttpErrorMessage(404),
   MissingKeyMessage, EmptyArrayMessage}

\* C4: a withRentCastBudget call with no concurrent caller ends with the calls
\* one higher than before when the operation succeeded, and equal to their value
\* before the call when it failed with upstream 429, 5xx, 404 or an error that
\* carries no status.
C4_NetEffectOfOneCall ==
  \A r \in Requests :
    (req[r].pc = "done" /\ req[r].reserved = "ok" /\ LatestReq(r))
      => /\ req[r].err = NoErr
              => usage[req[r].period].calls = req[r].callsBefore + 1
         /\ req[r].err \in RefundableErrors
              => usage[req[r].period].calls = req[r].callsBefore

\* a call whose operation failed with upstream 404 has ended, refunded
C4_Witness ==
  \E r \in Requests :
    /\ req[r].pc = "done" /\ req[r].reserved = "ok" /\ LatestReq(r)
    /\ req[r].err = HttpErrorMessage(404)
    /\ req[r].refunds = 1
    /\ usage[req[r].period].calls = req[r].callsBefore

\* C5, as claimed: every error of the operation after a successful reservation
\* is refunded; only full success keeps the reservation.
C5_EveryErrorRefunded ==
  \A r \in Requests :
    (req[r].pc = "done" /\ req[r].reserved = "ok" /\ req[r].err # NoErr)
      => req[r].refunds >= 1

\* upstream HTTP errors below 500 other than 404 and 429
KeptErrors ==
  {HttpErrorMessage(s) : s \in {t \in HttpStatuses : t < 500 /\ t \notin {404, 429}}}

\* C5, amended: after a successful reservation an error of the operation is
\* refunded exactly once, unless it is an upstream HTTP error with a status below
\* 500 other than 404 and 429, which keeps the reservation as success does.
C5_RefundedUnlessOther4xx ==
  \A r \in Requests :
    (req[r].pc = "done" /\ req[r].reserved = "ok")
      => req[r].refunds = IF req[r].err = NoErr \/ req[r].err \in KeptErrors
                          THEN 0 ELSE 1

\* an operation failed with upstream 401 and the reservation was kept
C5_Witness ==
  \E r \in Requests :
    /\ req[r].pc = "done" /\ req[r].reserved = "ok"
    /\ req[r].err = HttpErrorMessage(401)
    /\ req[r].refunds = 0
    /\ usage[req[r].period].calls = req[r].callsBefore + 1

(***************************************************************************)
(* Properties of the routes.                                               *)
(***************************************************************************)
\* C6, as claimed: a request that has invoked the provider holds a successful
\* reservation.
C6_ProviderOnlyThroughGuard ==
  \A r \in Requests : req[r].invoked => req[r].reserved = "ok"

\* C7, as claimed: when a request has refreshed a market and the same request is
\* made again with less than the TTL elapsed, the second one neither invokes the
\* provider nor reserves, and returns the snapshot the first one returned.
C7_FreshnessIdempotence ==
  \A r1, r2 \in Requests :
    ( /\ r1 < r2
      /\ req[r1].kind = req[r2].kind
      /\ req[r1].marketId = req[r2].marketId
      /\ req[r1].propertyType = req[r2].propertyType
      /\ req[r1].pc = "done" /\ req[r1].wrote /\ req[r1].resp.status = 200
      /\ req[r2].pc = "done"
      /\ req[r2].checkedAt - req[r1].startedAt < ttlOf(req[r1].kind) )
      => /\ ~req[r2].invoked
         /\ req[r2].reserved = "none"
         /\ req[r2].resp.snapshot = req[r1].resp.snapshot

\* C8: a summary request that finds a latest snapshot older than the TTL and
\* whose provider call fails answers with that snapshot, stale = true and a
\* non-empty error message, and the failing step leaves the Snapshot rows as
\* they were.
C8_StaleFallback ==
  /\ [](\A r \in Requests :
          ( /\ req[r].kind \in SummaryKinds
            /\ req[r].pc = "done"
            /\ req[r].existing # NoSnap
            /\ req[r].checkedAt - req[r].existing.asOf >= ttlOf(req[r].kind)
            /\ req[r].err # NoErr )
            => /\ req[r].resp.status = 200
               /\ req[r].resp.snapshot = req[r].existing
               /\ req[r].resp.stale
               /\ req[r].resp.message # <<>>
               /\ ~req[r].wrote)
  /\ [][\A r \in Requests :
          (req[r].kind \in SummaryKinds /\ req[r].pc = "op" /\ req'[r].err # NoErr)
            => snapshots' = snapshots]_vars

\* a summary request has fallen back to a stale snapshot
C8_Witness ==
  \E r \in Requests :
    /\ req[r].kind = "summary" /\ req[r].pc = "done"
    /\ req[r].existing # NoSnap
    /\ req[r].checkedAt - req[r].existing.asOf >= TTL_DAYS
    /\ req[r].err = HttpErrorMessage(500)
    /\ req[r].resp.stale

\* the rows the request's query looks at
RowsSeenBy(r) ==
  IF req[r].kind \in AddKinds THEN RowsOfMarket(req[r].marketId)
  ELSE RowsOfMarketType(req[r].marketId, req[r].propertyType)

\* C9: a request that finds no snapshot for its market and whose provider call
\* fails ends with an error response that carries no snapshot, and writes no
\* Snapshot row.
C9_NoDataNoFallback ==
  \A r \in Requests :
    (req[r].pc = "done" /\ req[r].existing = NoSnap /\ req[r].err # NoErr)
      => /\ req[r].resp.status >= 400
         /\ req[r].resp.snapshot = NoSnap
         /\ ~req[r].wrote
         /\ LatestReq(r) => RowsSeenBy(r) = {}

\* a summary request with nothing stored has failed with the provider
C9_Witness ==
  \E r \in Requests :
    /\ req[r].kind = "summary006" /\ req[r].pc = "done"
    /\ req[r].existing = NoSnap
    /\ req[r].err = HttpErrorMessage(429)
    /\ req[r].resp.status = 500

\* C10, as claimed: with a snapshot stored for the market, a failed refresh
\* (the provider failed or the quota is exhausted) is answered with the stored
\* snapshot flagged stale, never with an error response.
C10_FallbackInsteadOfError ==
  \A r \in Requests :
    ( /\ req[r].pc = "done"
      /\ req[r].existing # NoSnap
      /\ (req[r].err # NoErr \/ req[r].reserved = "denied") )
      => /\ req[r].resp.status = 200
         /\ req[r].resp.snapshot = req[r].existing
         /\ req[r].resp.stale

(***************************************************************************)
(* Properties of the store: markets, snapshots, hide and list.             *)
(***************************************************************************)
NewMarketId == MarketIdOf(NewZip)

\* C11, as claimed: in every state of the add-market flow, the states between
\* its store operations included, the Market row of a brand-new ZIP exists only
\* if a Snapshot row of that market exists.
C11_MarketOnlyAfterSnapshot ==
  markets[NewMarketId].exists => RowsOfMarket(NewMarketId) # {}

\* C12, as claimed: with the calls at the monthly limit, add-market for a ZIP
\* with no Market and no Snapshot row answers 429 RENTCAST_QUOTA_EXHAUSTED and
\* leaves the ZIP without Market and Snapshot rows.
C12_QuotaExhaustedAnswer ==
  \A r \in Requests :
    ( /\ req[r].kind \in AddKinds /\ req[r].pc = "done"
      /\ req[r].marketId = NewMarketId
      /\ req[r].reserved = "denied"
      /\ req[r].callsBefore = RENTCAST_MONTHLY_LIMIT )
      => /\ req[r].resp.status = 429
         /\ req[r].resp.code = "RENTCAST_QUOTA_EXHAUSTED"
         /\ LatestReq(r) => /\ ~markets[NewMarketId].exists
                             /\ RowsOfMarket(NewMarketId) = {}

\* an add-market request for the brand-new ZIP has answered 200
AddedNewMarket(r) ==
  /\ req[r].kind \in AddKinds /\ req[r].pc = "done"
  /\ req[r].marketId = NewMarketId
  /\ req[r].marketBefore = NoMarket
  /\ req[r].resp.status = 200

C14_InvalidZipRejected ==
  \A r \in Requests :
    (req[r].kind \in AddKinds /\ req[r].pc = "done" /\ req[r].marketId = <<>>)
      => /\ req[r].resp.status = 400
         /\ req[r].resp.code = "INVALID_ZIP"
         /\ ~req[r].invoked
         /\ req[r].reserved = "none"
         /\ ~req[r].wrote

\* C15, as claimed: whatever add-market and hide requests came before, the
\* listing holds no market whose hidden flag is set.
C15_ListingExcludesHidden ==
  \A item \in listing.items : ~item.hidden

\* the hide request served in this step, if any
HideServed(id) ==
  /\ Len(hideLog') = Len(hideLog) + 1
  /\ hideLog'[Len(hideLog')].id = id

\* C16: a hide request for an existing market sets that market's hidden flag
\* and nothing else: the row stays, the other Market rows, the Snapshot rows and
\* the calls are unchanged; a second hide of the same market changes nothing
\* and answers as the first did.
C16_HideIsIdempotentSoftDelete ==
  /\ [][\A id \in MarketIds :
          (HideServed(id) /\ markets[id].exists)
            => /\ markets' = [markets EXCEPT ![id].hidden = TRUE]
               /\ markets'[id].exists
               /\ markets[id].hidden => markets' = markets
               /\ snapshots' = snapshots
               /\ usage' = usage
               /\ hideLog'[Len(hideLog')] = HideResponse(id, 200, TRUE)]_vars
  /\ [](\A i, j \in 1..Len(hideLog) :
          (i < j /\ hideLog[i].id = hideLog[j].id /\ hideLog[i].status = 200)
            => hideLog[j] = hideLog[i])

\* a market with a stored snapshot was hidden twice
C16_Witness ==
  \E id \in MarketIds :
    /\ Len(hideLog) = 2
    /\ hideLog[1] = HideResponse(id, 200, TRUE)
    /\ hideLog[2] = hideLog[1]
    /\ markets[id].exists /\ markets[id].hidden
    /\ RowsOfMarket(id) # {}

\* an add-market request for a market that was hidden when it started answers 200
\* in this step
UnhidingAddAnswers(r) ==
  /\ req[r].kind \in AddKinds
  /\ req[r].pc # "done" /\ req'[r].pc = "done"
  /\ req'[r].resp.status = 200
  /\ req'[r].marketBefore.hidden

C18_SnapshotsAppendOnly ==
  [][snapshots \subseteq snapshots']_vars

\* rows were appended by the core refresh and by a request, next to a stored
\* one, and a market was hidden
C18_Witness ==
  /\ Cardinality(snapshots) >= 3
  /\ \E id \in CORE_MARKET_IDS : RowsOfMarket(id) # {}
  /\ \E s \in snapshots : s.id = 1 /\ s.asOf = 0 - StaleLag
  /\ \E id \in MarketIds : markets[id].hidden

(***************************************************************************)
(* Properties of the error classification.                                 *)
(***************************************************************************)
\* the guard rethrew an error of the operation of request r
GuardFailed(r) ==
  /\ req[r].kind \in AddKinds /\ req[r].pc = "done"
  /\ req[r].reserved = "ok" /\ req[r].err # NoErr

UpstreamError(message) ==
  makeHttpError(<<"Upstream", "request", "failed:">> \o message, 502, "UPSTREAM_ERROR")

\* the outcomes of upstream 404, 429 and 5xx
ClassifiedByStatus(r) ==
  LET status == parseRentcastStatus(req[r].err)
  IN /\ status = 404
          => req[r].thrown = makeHttpError(NoDataMessage, 422, "RENTCAST_NO_DATA")
     /\ status = 429
          => req[r].thrown = makeHttpError(RateLimitMessage, 429, "RENTCAST_RATE_LIMIT")
     /\ status >= 500
          => req[r].thrown = makeHttpError(ProviderErrorMessage, 502,
                                          "RENTCAST_PROVIDER_ERROR")
     /\ (status \in {404, 429} \/ status >= 500 \/ status = null)
          => req[r].refunds = 1

\* C19, as claimed: upstream 404 gives 422 RENTCAST_NO_DATA, 429 gives 429
\* RENTCAST_RATE_LIMIT, 5xx gives 502 RENTCAST_PROVIDER_ERROR, and every error
\* with no recognizable status gives 502 UPSTREAM_ERROR with the original
\* message; each of the four is refunded.
C19_FixedOutcomes ==
  \A r \in Requests :
    GuardFailed(r)
      => /\ ClassifiedByStatus(r)
         /\ parseRentcastStatus(req[r].err) = null
              => req[r].thrown = UpstreamError(req[r].err)

\* C19, amended: as claimed for 404, 429 and 5xx; an error with no recognizable
\* status gives 502 UPSTREAM_ERROR with the original message unless its message
\* starts with "[RentCast]", which gives 502 RENTCAST_PROVIDER_ERROR and the
\* generic message; all of these are refunded once.
C19_OutcomesByPrefix ==
  \A r \in Requests :
    GuardFailed(r)
      => /\ ClassifiedByStatus(r)
         /\ parseRentcastStatus(req[r].err) = null
              => req[r].thrown =
                   IF startsWithRentCast(req[r].err)
                   THEN makeHttpError(ProviderErrorMessage, 502, "RENTCAST_PROVIDER_ERROR")
                   ELSE UpstreamError(req[r].err)

\* the provider returned an empty array: refunded, answered as a provider error
C19_Witness ==
  \E r \in Requests :
    /\ GuardFailed(r)
    /\ req[r].err = EmptyArrayMessage
    /\ req[r].thrown.code = "RENTCAST_PROVIDER_ERROR"
    /\ req[r].refunds = 1

\* C20, as claimed: with the provider credentials missing, a request that needs
\* a refresh ends with HTTP 500.
C20_MissingKeyIsFatal ==
  \A r \in Requests :
    (req[r].pc = "done" /\ req[r].err = MissingKeyMessage) => req[r].resp.status = 500

(***************************************************************************)
(* Properties of the market detail page.                                   *)
(***************************************************************************)
\* C21, as claimed: the page looks up the canonical id of an id in the alias
\* table and answers as for that id, looks up any other id unchanged, and
\* resolving a resolved id changes nothing.
C21_AliasResolution ==
  /\ [](detail # NoDetail
          => /\ detail.id = IF detail.rawId \in DOMAIN MARKET_ALIAS
                             THEN MARKET_ALIAS[detail.rawId] ELSE detail.rawId
             /\ resolveAlias(detail.id) = detail.id)
  /\ [][detail' # detail
          => /\ detail'.outcome = findUniqueMarket(detail'.id).outcome
             /\ detail'.market = findUniqueMarket(detail'.id).market]_vars

(***************************************************************************)
(* Properties of refunds and reservations.                                 *)
(***************************************************************************)
\* C22: the calls are decremented at most once for a successful reservation,
\* whatever the operation throws: every decrement is by one, on behalf of one
\* caller that holds a reservation and had no refund yet.
C22_AtMostOneRefund ==
  /\ [](\A r \in Requests :
          req[r].refunds <= 1 /\ (req[r].refunds = 1 => req[r].reserved = "ok"))
  /\ [][\A p \in Periods :
          usage'[p].calls < usage[p].calls
            => /\ usage'[p].calls = usage[p].calls - 1
               /\ \E r \in Requests :
                    /\ req[r].period = p /\ req[r].reserved = "ok"
                    /\ req[r].refunds = 0 /\ req'[r].refunds = 1]_vars

\* two concurrent callers were refunded once each, one after an upstream 404 and
\* one after an error with no status
C22_Witness ==
  \E r1, r2 \in Requests :
    /\ req[r1].pc = "done" /\ req[r1].err = HttpErrorMessage(404) /\ req[r1].refunds = 1
    /\ req[r2].pc = "done" /\ req[r2].err = MissingKeyMessage /\ req[r2].refunds = 1
    /\ req[r1].period = req[r2].period
    /\ usage[req[r1].period].calls = priorCalls[req[r1].period]

\* C23, as claimed: add-market for (marketId, propertyType) decides on the
\* snapshots of that pair only: a snapshot stored for the market under another
\* propertyType is not served and does not suppress the refresh.
C23_DecisionKeyedByPair ==
  \A r \in Requests :
    ( /\ req[r].kind \in AddKinds /\ req[r].pc = "done"
      /\ req[r].existing # NoSnap
      /\ req[r].existing.propertyType # req[r].propertyType )
      => /\ req[r].reserved # "none"
         /\ req[r].resp.snapshot # req[r].existing

ReadLastSlot(p) ==
  {c \in Callers : calls[c].pc # "idle" /\ calls[c].period = p
                      /\ calls[c].row = incrementLimit - 1}

\* C25: two concurrent calls that both read the count limit - 1 both return
\* ok = true, and once both have returned the stored count is above the limit.
C25_ReadThenWriteOverruns ==
  \A p \in Periods :
    /\ \A c \in ReadLastSlot(p) : calls[c].pc = "done" => calls[c].ok
    /\ (Cardinality(ReadLastSlot(p)) >= 2
          /\ \A c \in ReadLastSlot(p) : calls[c].pc = "done")
         => usageRows[p] > incrementLimit

\* both calls read limit - 1, both returned ok, the count is limit + 1
C25_Witness ==
  \E c, d \in Callers :
    /\ c # d /\ {c, d} \subseteq ReadLastSlot(0)
    /\ calls[c].pc = "done" /\ calls[d].pc = "done"
    /\ calls[c].ok /\ calls[d].ok
    /\ usageRows[0] = incrementLimit + 1

(***************************************************************************)
(* Properties of concurrent refreshes.                                     *)
(***************************************************************************)
\* the add-market request has answered after its provider call returned data
Refreshed(r) ==
  /\ req[r].kind \in AddKinds /\ req[r].pc = "done"
  /\ req[r].reserved = "ok" /\ req[r].invoked /\ req[r].err = NoErr

\* the reservations of period p that were not refunded
KeptIn(p) ==
  {q \in Requests : req[q].reserved = "ok" /\ req[q].period = p /\ req[q].refunds = 0}

C27_NullLocationIsHarmless ==
  [][\A r \in Requests :
       (req[r].pc = "upsertMarket" /\ req'[r].pc # "upsertMarket"
          /\ req'[r].loc = "null")
       => LET old == markets[req[r].marketId]
              new == markets'[req[r].marketId]
          IN /\ new.exists
             /\ IF old.exists
                THEN new.city = old.city /\ new.state = old.state
                ELSE new.city = "null" /\ new.state = "null"
             /\ \/ req'[r].pc = "createSnapshot" /\ req'[r].market = new
                \/ /\ req'[r].pc = "done" /\ req'[r].resp.status = 200
                   /\ req'[r].resp.market = new]_vars

\* one request created a market without location, another updated the seeded
\* market without location and left its city in place
C27_Witness ==
  \E r1, r2 \in Requests :
    /\ req[r1].loc = "null" /\ req[r1].pc = "done" /\ req[r1].resp.status = 200
    /\ ~req[r1].marketBefore.exists
    /\ req[r1].resp.market.exists /\ req[r1].resp.market.city = "null"
    /\ req[r2].loc = "null" /\ req[r2].pc = "done" /\ req[r2].resp.status = 200
    /\ req[r2].marketBefore.exists
    /\ req[r2].resp.market.city = req[r2].marketBefore.city
    /\ req[r2].resp.market.city # "null"

(***************************************************************************)
(* Properties of the ApiUsage rows.                                        *)
(***************************************************************************)
\* C28: the calls of a period are never negative; a reservation increments the
\* row of the period the invocation looked up when it started, and a decrement
\* is by one, on that same row, by an invocation that holds a reservation, also
\* when the month has changed since.
C28_RefundHitsReservedRow ==
  /\ [](\A p \in Periods : usage[p].calls >= 0)
  /\ [][\A r \in Requests :
          /\ (req[r].reserved # "ok" /\ req'[r].reserved = "ok")
               => /\ req'[r].period = req[r].period
                  /\ usage'[req[r].period].calls = usage[req[r].period].calls + 1
          /\ req[r].reserved = "ok" => req'[r].period = req[r].period]_vars
  /\ [][\A p \in Periods :
          usage'[p].calls < usage[p].calls
          => /\ usage'[p].calls = usage[p].calls - 1
             /\ \A q \in Periods \ {p} : usage'[q] = usage[q]
             /\ \E r \in Requests :
                  /\ req[r].period = p /\ req[r].reserved = "ok"
                  /\ req[r].refunds = 0 /\ req'[r].refunds = 1]_vars

\* a reservation of the first month was refunded after the month had changed
C28_Witness ==
  \E r \in Requests :
    /\ req[r].reserved = "ok" /\ req[r].refunds = 1 /\ req[r].period = 0
    /\ getYearMonth(req[r].refundedAt) = 1
    /\ usage[0].calls = priorCalls[0] + Cardinality(KeptIn(0))
    /\ usage[1].calls = Cardinality(KeptIn(1))

\* the reservations of period p whose operation or refund is still to come
PendingIn(p) ==
  {q \in Requests : req[q].reserved = "ok" /\ req[q].period = p
                       /\ req[q].decision = "none"}

\* the reservations of period p that were decided and kept
ChargedIn(p) ==
  {q \in Requests : req[q].reserved = "ok" /\ req[q].period = p
                       /\ req[q].decision = "keep"}

\* C29: the calls of a period are the calls it started with, plus the
\* reservations kept, plus the reservations whose operation or refund is
\* pending; a reservation is denied only when that sum has reached the limit.
C29_CallsAreKeptPlusPending ==
  /\ \A p \in Periods :
       usage[p].calls =
         priorCalls[p] + Cardinality(ChargedIn(p)) + Cardinality(PendingIn(p))
  /\ \A r \in Requests :
       req[r].reserved = "denied" =>
         usage[req[r].period].calls + Cardinality({q \in Requests :
             req[q].period = req[r].period /\ req[q].decision = "refund"})
           >= RENTCAST_MONTHLY_LIMIT

\* a request was rejected for quota, every request has answered, and the month
\* is charged fewer calls than the limit
C29_Witness ==
  \E r \in Requests :
    /\ req[r].reserved = "denied" /\ req[r].pc = "done"
    /\ req[r].resp.code = "RENTCAST_QUOTA_EXHAUSTED"
    /\ \A q \in Requests : req[q].pc = "done"
    /\ PendingIn(req[r].period) = {}
    /\ usage[req[r].period].calls < RENTCAST_MONTHLY_LIMIT

(***************************************************************************)
(* Properties of the refreshed snapshot.                                   *)
(***************************************************************************)
\* C30: when a request of add-market or summary has refreshed and answered 200,
\* and no later request has started, the snapshot it returned has the greatest
\* asOf among the rows of its market.
C30_ReturnedIsCurrent ==
  \A r \in Requests :
    (LatestReq(r) /\ req[r].pc = "done" /\ req[r].wrote
       /\ req[r].resp.status = 200)
    => /\ req[r].resp.snapshot \in RowsOfMarket(req[r].marketId)
       /\ \A s \in RowsOfMarket(req[r].marketId) :
            s.asOf <= req[r].resp.snapshot.asOf

====
